---- MODULE Spec2Model ----
(***************************************************************************)
(* The LRU proxy cache of proxy_cache.c: a hash map from URL to            *)
(* cache_element, an intrusive doubly-linked recency list (head = MRU,     *)
(* tail = LRU), the byte counter current_size and one mutex, driven by     *)
(* threads that call cache_add and cache_find.                             *)
(*                                                                         *)
(* Memory is modelled explicitly: cache_element structs live at addresses  *)
(* 1..MaxAddr, `heap` holds the bytes found at each address (they persist  *)
(* after free), `live` is the set of addresses currently allocated.  A     *)
(* read or write through a freed address is undefined behaviour; the model *)
(* resolves it nondeterministically to "the process aborts" or "the access *)
(* sees the stale bytes and execution continues".                          *)
(***************************************************************************)
EXTENDS Integers, Sequences, FiniteSets, TLC

(* ------------------------------ constants ------------------------------ *)

MAX_CACHE_SIZE == 100

\* size_t is modelled at a reduced width: arithmetic on current_size is
\* taken modulo 2^SizeBits, so that unsigned wrap-around is preserved.
SizeBits == 10
SIZE_MOD == 2 ^ SizeBits

NumThreads == 2
MaxAddr == 4

\* how many critical sections are followed after one has run into undefined
\* behaviour and gone on with stale memory
MaxCorruptOps == 1

Threads == 1 .. NumThreads
Addr == 1 .. MaxAddr
NULL == 0

Keys == {"a", "b", "c"}
NullStr == "NULL"
Payloads == {"p", "q"}
NullData == "NULL"
Lens == {30, 60, 100}

\* the argument triples the callers pass to cache_add: every valid one and
\* one representative of each way of being invalid
ValidArgs == {<<u, d, n>> : u \in Keys, d \in Payloads, n \in Lens}
InvalidArgs ==
    { <<NullStr, "p", 30>>, <<"a", NullData, 30>>, <<"a", "p", 0>>,
      <<"a", "p", MAX_CACHE_SIZE + 1>>, <<NullStr, NullData, 0>> }
AddArgs == ValidArgs \cup InvalidArgs
FindArgs == Keys \cup {NullStr}

(* ------------------------------- state --------------------------------- *)

VARIABLES
    map,            \* g_cache.map  : URL -> cache_element* (NULL = no mapping)
    head,           \* g_cache.head
    tail,           \* g_cache.tail
    current_size,   \* g_cache.current_size
    heap,           \* contents of every cache_element address
    live,           \* addresses currently allocated (not freed)
    mutex,          \* g_cache.mutex : holder thread, or 0 when free
    pc,             \* per thread: where it is inside cache_add / cache_find
    call,           \* per thread: arguments and outcome of the current call
    crashed,        \* the process aborted on undefined behaviour
    corrupt,        \* ghost: 0, or 1 + the number of critical sections run
                    \* since undefined behaviour was first survived
    recency         \* ghost: keys of the index, most recently touched first

vars == <<map, head, tail, current_size, heap, live, mutex, pc, call,
          crashed, corrupt, recency>>

cachevars == <<map, head, tail, current_size, heap, live>>

ZeroElement == [url |-> NullStr, data |-> NullData, len |-> 0,
                next |-> NULL, prev |-> NULL]

NoCall == [op |-> "none", url |-> NullStr, data |-> NullData, len |-> 0,
           fail |-> "none", ret |-> NULL, path |-> "none", evicted |-> <<>>]

(* ---------------- the cache as a value, for the helpers ---------------- *)

\* The g_cache fields and the heap as one record, threaded through the
\* helper functions.  uaf: a freed address was read or written; spin: the
\* eviction loop cannot terminate; evicted: the victims of this call.
Cache == [map |-> map, head |-> head, tail |-> tail,
          current_size |-> current_size, heap |-> heap, live |-> live,
          uaf |-> FALSE, spin |-> FALSE, evicted |-> <<>>]

\* a dereference of address e: undefined behaviour unless e is allocated
Deref(c, e) == IF e \in c.live THEN c ELSE [c EXCEPT !.uaf = TRUE]

(* --------------------------- hash map (hashmap.h) ----------------------- *)

map_find(c, url) == IF url \in Keys THEN c.map[url] ELSE NULL

map_insert(c, url, element) == [c EXCEPT !.map[url] = element]

\* free_cache_element: free(element->data); free(element)
free_cache_element(c, data) ==
    IF data = NULL THEN c
    ELSE [Deref(c, data) EXCEPT !.live = @ \ {data}]

\* map_erase: removes the mapping and runs the value destructor on it
map_erase(c, url) ==
    IF url \in Keys /\ c.map[url] # NULL
    THEN free_cache_element([c EXCEPT !.map[url] = NULL], c.map[url])
    ELSE c

(* --------------------------- list primitives --------------------------- *)

\* if (p) p->next = n; else g_cache.head = n;          (lines 66-69)
SetNext(c, p, n) ==
    IF p # NULL THEN [Deref(c, p) EXCEPT !.heap[p].next = n]
    ELSE [c EXCEPT !.head = n]

\* if (n) n->prev = p; else g_cache.tail = p;          (lines 71-74)
SetPrev(c, n, p) ==
    IF n # NULL THEN [Deref(c, n) EXCEPT !.heap[n].prev = p]
    ELSE [c EXCEPT !.tail = p]

\* lines 66-74, with p = element->prev and n = element->next
Unlink(c, p, n) == SetPrev(SetNext(c, p, n), n, p)

detach_node_unlocked(c, element) ==
    IF element = NULL THEN c
    ELSE Unlink(Deref(c, element),
                c.heap[element].prev, c.heap[element].next)

\* if (g_cache.head) g_cache.head->prev = element;     (lines 91-93)
LinkOldHead(c, h, element) ==
    IF h # NULL THEN [Deref(c, h) EXCEPT !.heap[h].prev = element] ELSE c

\* g_cache.head = element; if (!g_cache.tail) g_cache.tail = element;
SetHead(c, element) ==
    [c EXCEPT !.head = element,
              !.tail = IF @ = NULL THEN element ELSE @]

attach_node_to_head_unlocked(c, element) ==
    IF element = NULL THEN c
    ELSE SetHead(LinkOldHead([Deref(c, element) EXCEPT
                                 !.heap[element].next = c.head,
                                 !.heap[element].prev = NULL],
                             c.head, element),
                 element)

\* lines 115-119, after the detach of lru_element
EvictDetached(c, lru_element) ==
    map_erase([c EXCEPT
                 !.current_size = (@ - c.heap[lru_element].len) % SIZE_MOD,
                 !.evicted = Append(@, lru_element)],
              c.heap[lru_element].url)

remove_lru_element_unlocked(c) ==
    IF c.tail = NULL THEN c
    ELSE EvictDetached(detach_node_unlocked(c, c.tail), c.tail)

\* while (g_cache.current_size + length > MAX_CACHE_SIZE)
\*     remove_lru_element_unlocked();
\* An iteration that changes nothing (the list is empty) repeats for ever.
SameMemory(c1, c2) ==
    /\ c1.map = c2.map /\ c1.head = c2.head /\ c1.tail = c2.tail
    /\ c1.current_size = c2.current_size
    /\ c1.heap = c2.heap /\ c1.live = c2.live

RECURSIVE EvictLoop(_, _)
\* c1: the memory after one iteration of the loop run on c
EvictAgain(c1, c, length) ==
    IF SameMemory(c1, c) THEN [c1 EXCEPT !.spin = TRUE]
    ELSE EvictLoop(c1, length)

EvictLoop(c, length) ==
    IF (c.current_size + length) % SIZE_MOD > MAX_CACHE_SIZE
    THEN EvictAgain(remove_lru_element_unlocked(c), c, length)
    ELSE c

(* ------------------------- unobservable memory ------------------------- *)

\* Addresses that some pointer of the program can still reach.
Roots(c) == ({c.head, c.tail} \cup {c.map[k] : k \in Keys} \cup c.live) \ {NULL}

RECURSIVE Closure(_, _)
Closure(c, S) ==
    LET T == (S \cup {c.heap[x].next : x \in S} \cup {c.heap[x].prev : x \in S})
             \ {NULL}
    IN IF T = S THEN S ELSE Closure(c, T)

\* The bytes of a freed address that nothing points to cannot be observed
\* (calloc zeroes an address before it is used again): they are kept as zero.
Collect(c) ==
    LET R == Closure(c, Roots(c)) IN
    [c EXCEPT !.heap = [x \in Addr |-> IF x \in R THEN c.heap[x] ELSE ZeroElement]]

(* ------------------------------ cache_find ----------------------------- *)

\* cache_find with the detach of line 199 left out
cache_find_locked_NoDetach(c, url) ==
    LET element == map_find(c, url) IN
    IF element # NULL
    THEN attach_node_to_head_unlocked(c, element)
    ELSE c

\* the critical section of cache_find: lines 195-201
cache_find_locked(c, url) ==
    LET element == map_find(c, url) IN
    IF element # NULL
    THEN attach_node_to_head_unlocked(detach_node_unlocked(c, element), element)
    ELSE c

(* ------------------------------ cache_add ------------------------------ *)

\* the pre-condition check with the length == 0 test left out
precondition_fails_NoZeroCheck(url, data, length) ==
    url = NullStr \/ data = NullData \/ length > MAX_CACHE_SIZE

\* the pre-condition check of cache_add: line 215
precondition_fails(url, data, length) ==
    url = NullStr \/ data = NullData \/ length = 0 \/ length > MAX_CACHE_SIZE

\* lines 238-259: the entry is detached, its payload replaced, and it is
\* attached again; fail = "data": malloc(length) returns NULL.
UpdateEntry(c, existing_element, data, length, fail) ==
    IF fail = "data"
    THEN map_erase([c EXCEPT !.heap[existing_element].data = NullData],
                   c.heap[existing_element].url)
    ELSE attach_node_to_head_unlocked(
           [c EXCEPT !.heap[existing_element].data = data,
                     !.heap[existing_element].len = length,
                     !.current_size = (@ + length) % SIZE_MOD],
           existing_element)

\* what follows the eviction loop of the update path
UpdateAfterEvict(c, existing_element, data, length, fail) ==
    IF c.spin THEN c
    ELSE UpdateEntry(detach_node_unlocked(c, existing_element),
                     existing_element, data, length, fail)

\* CASE 1, lines 229-260
cache_add_update(c, existing_element, data, length, fail) ==
    UpdateAfterEvict(
      EvictLoop([Deref(c, existing_element) EXCEPT !.current_size =
                   (@ - c.heap[existing_element].len) % SIZE_MOD],
                length),
      existing_element, data, length, fail)

\* calloc(1, sizeof(cache_element)) returning address a
AllocNew(c, a) == [c EXCEPT !.heap[a] = ZeroElement, !.live = @ \cup {a}]

\* lines 296-302: the new entry is filled, attached and put in the index
InsertEntry(c, url, data, length, a) ==
    [map_insert(
       attach_node_to_head_unlocked(
         [c EXCEPT !.heap[a].url = url, !.heap[a].data = data,
                   !.heap[a].len = length], a),
       url, a)
     EXCEPT !.current_size = (@ + length) % SIZE_MOD]

\* what follows the eviction loop of the insert path.  fail = "entry":
\* calloc returns NULL; "url": strdup returns NULL; "data": malloc returns
\* NULL.  a: the address calloc returns.
InsertAfterEvict(c, url, data, length, fail, a) ==
    IF c.spin \/ fail = "entry" THEN c
    ELSE IF fail \in {"url", "data"}
         THEN [AllocNew(c, a) EXCEPT !.live = @ \ {a}]
         ELSE InsertEntry(AllocNew(c, a), url, data, length, a)

\* CASE 2, lines 262-303
cache_add_insert(c, url, data, length, fail, a) ==
    InsertAfterEvict(EvictLoop(c, length), url, data, length, fail, a)

\* the critical section of cache_add: lines 226-303
cache_add_locked(c, url, data, length, fail, a) ==
    IF map_find(c, url) # NULL
    THEN cache_add_update(c, map_find(c, url), data, length, fail)
    ELSE cache_add_insert(c, url, data, length, fail, a)

\* The addresses calloc may return: any freed address that is still pointed
\* to, or an address nothing points to.  The latter are interchangeable (their
\* bytes are zero and no pointer distinguishes them), so one is fixed: the
\* slot named after the key when it is free, else the least.
HomeSlot(url) == CASE url = "a" -> 1 [] url = "b" -> 2 [] OTHER -> 3

Min(S) == CHOOSE x \in S : \A y \in S : x <= y

\* ref: the addresses some pointer can reach
CallocFrom(c, ref, url) ==
    (ref \ c.live) \cup
    (IF HomeSlot(url) \notin ref THEN {HomeSlot(url)}
     ELSE IF Addr \ ref # {} THEN {Min(Addr \ ref)} ELSE {})

CallocChoices(c, url) == CallocFrom(c, Closure(c, Roots(c)), url)

\* the outcomes of the insert path after its eviction loop
InsertOutcomes(c, url) ==
    IF c.spin THEN {<<"none", NULL>>}
    ELSE {<<"entry", NULL>>} \cup
         ({"none", "url", "data"} \X CallocChoices(c, url))

\* The allocation outcomes <<fail, a>> a call can meet: which allocation
\* fails (if any) and the address calloc returns.
AllocOutcomes(c, url, length) ==
    IF map_find(c, url) # NULL
    THEN {<<"none", NULL>>, <<"data", NULL>>}
    ELSE InsertOutcomes(EvictLoop(c, length), url)

\* what a critical section with undefined behaviour in it can do
Outcomes(c) == IF c.uaf THEN {"continue", "abort"} ELSE {"continue"}

Store(d) ==
    /\ map' = d.map
    /\ head' = d.head
    /\ tail' = d.tail
    /\ current_size' = d.current_size
    /\ heap' = d.heap
    /\ live' = d.live

Install(c) == Store(Collect(c))

\* ghost: the keys of index m in order of last touch, after a touch of k
\* (k = NullStr: no touch)
Touched(rec, k, m) ==
    LET rest == SelectSeq(rec, LAMBDA x : x # k /\ m[x] # NULL) IN
    IF k \in Keys /\ m[k] # NULL THEN <<k>> \o rest ELSE rest

NextCorrupt(c) == IF corrupt > 0 THEN corrupt + 1 ELSE IF c.uaf THEN 1 ELSE 0

(* ------------------------------- actions ------------------------------- *)

\* cache_init, lines 137-153
Init ==
    /\ map = [k \in Keys |-> NULL]
    /\ head = NULL
    /\ tail = NULL
    /\ current_size = 0
    /\ heap = [x \in Addr |-> ZeroElement]
    /\ live = {}
    /\ mutex = 0
    /\ pc = [t \in Threads |-> "idle"]
    /\ call = [t \in Threads |-> NoCall]
    /\ crashed = FALSE
    /\ corrupt = 0
    /\ recency = <<>>

AddCall(args) == [NoCall EXCEPT !.op = "add", !.url = args[1],
                                !.data = args[2], !.len = args[3]]

\* A thread calls cache_add(url, data, length): lines 213-217.  The
\* arguments of a call that passes the check play no part until its critical
\* section runs; they are drawn there.
cache_add_enter(t) ==
    /\ ~crashed
    /\ pc[t] = "idle"
    /\ \E args \in AddArgs :
         IF precondition_fails(args[1], args[2], args[3])
         THEN /\ pc' = [pc EXCEPT ![t] = "add_return"]
              /\ call' = [call EXCEPT ![t] = AddCall(args)]
         ELSE /\ pc' = [pc EXCEPT ![t] = "add_lock"]
              /\ UNCHANGED call
    /\ UNCHANGED <<cachevars, mutex, crashed, corrupt, recency>>

\* The critical section of thread t's cache_add(args) has computed memory c
\* under allocation outcome fail: the process aborts on undefined behaviour,
\* or goes on with c.
AddStep(t, args, fail, path, c) ==
    /\ c.spin => fail = "none"
    /\ mutex' = t
    /\ \E ub \in Outcomes(c) :
         IF ub = "abort"
         THEN /\ crashed' = TRUE
              /\ UNCHANGED <<cachevars, pc, call, corrupt, recency>>
         ELSE /\ Install(c)
              /\ pc' = [pc EXCEPT ![t] =
                          IF c.spin THEN "add_spin" ELSE "add_unlock"]
              /\ call' = [call EXCEPT ![t] =
                            [AddCall(args) EXCEPT !.fail = fail,
                                                  !.path = path,
                                                  !.evicted = c.evicted]]
              /\ recency' = Touched(recency,
                                    IF fail = "none" /\ ~c.spin THEN args[1]
                                    ELSE NullStr, c.map)
              /\ corrupt' = NextCorrupt(c)
              /\ UNCHANGED crashed

\* pthread_mutex_lock and the critical section of cache_add: lines 223-303
cache_add_critical(t, depth) ==
    /\ ~crashed
    /\ pc[t] = "add_lock"
    /\ mutex = 0
    /\ corrupt <= depth
    /\ \E args \in AddArgs :
         /\ ~precondition_fails(args[1], args[2], args[3])
         /\ \E o \in AllocOutcomes(Cache, args[1], args[3]) :
              AddStep(t, args, o[1],
                      IF map_find(Cache, args[1]) # NULL
                      THEN "update" ELSE "insert",
                      cache_add_locked(Cache, args[1], args[2], args[3],
                                       o[1], o[2]))

\* cache_add with the unlock of lines 246-250 (the exit taken when the payload
\* allocation of an update fails) left out
cache_add_unlock_KeepsLockOnFailure(t) ==
    /\ ~crashed
    /\ pc[t] = "add_unlock"
    /\ mutex' = IF call[t].path = "update" /\ call[t].fail = "data"
                THEN mutex ELSE 0
    /\ pc' = [pc EXCEPT ![t] = "idle"]
    /\ call' = [call EXCEPT ![t] = NoCall]
    /\ UNCHANGED <<cachevars, crashed, corrupt, recency>>

\* pthread_mutex_unlock and return: lines 246-252, 270-276, 288-293, 306-311
cache_add_unlock(t) ==
    /\ ~crashed
    /\ pc[t] = "add_unlock"
    /\ mutex' = 0
    /\ pc' = [pc EXCEPT ![t] = "idle"]
    /\ call' = [call EXCEPT ![t] = NoCall]
    /\ UNCHANGED <<cachevars, crashed, corrupt, recency>>

\* the early return of line 216
cache_add_return(t) ==
    /\ ~crashed
    /\ pc[t] = "add_return"
    /\ pc' = [pc EXCEPT ![t] = "idle"]
    /\ call' = [call EXCEPT ![t] = NoCall]
    /\ UNCHANGED <<cachevars, mutex, crashed, corrupt, recency>>

FindCall(url) == [NoCall EXCEPT !.op = "find", !.url = url]

\* a thread calls cache_find(url): lines 184-186
cache_find_enter(t) ==
    /\ ~crashed
    /\ pc[t] = "idle"
    /\ \E url \in FindArgs :
         IF url = NullStr
         THEN /\ pc' = [pc EXCEPT ![t] = "find_return"]
              /\ call' = [call EXCEPT ![t] = FindCall(url)]
         ELSE /\ pc' = [pc EXCEPT ![t] = "find_lock"]
              /\ UNCHANGED call
    /\ UNCHANGED <<cachevars, mutex, crashed, corrupt, recency>>

\* The critical section of thread t's cache_find(url), which found element
\* ret, has computed memory c.
FindStep(t, url, ret, c) ==
    /\ mutex' = t
    /\ \E ub \in Outcomes(c) :
         IF ub = "abort"
         THEN /\ crashed' = TRUE
              /\ UNCHANGED <<cachevars, pc, call, corrupt, recency>>
         ELSE /\ Install(c)
              /\ pc' = [pc EXCEPT ![t] = "find_unlock"]
              /\ call' = [call EXCEPT ![t] = [FindCall(url) EXCEPT !.ret = ret]]
              /\ recency' = Touched(recency, url, c.map)
              /\ corrupt' = NextCorrupt(c)
              /\ UNCHANGED crashed

\* pthread_mutex_lock and the critical section of cache_find: lines 191-201
cache_find_critical(t, depth) ==
    /\ ~crashed
    /\ pc[t] = "find_lock"
    /\ mutex = 0
    /\ corrupt <= depth
    /\ \E url \in Keys :
         FindStep(t, url, map_find(Cache, url), cache_find_locked(Cache, url))

\* pthread_mutex_unlock: line 207
cache_find_unlock(t) ==
    /\ ~crashed
    /\ pc[t] = "find_unlock"
    /\ mutex' = 0
    /\ pc' = [pc EXCEPT ![t] = "find_return"]
    /\ UNCHANGED <<cachevars, call, crashed, corrupt, recency>>

\* return element: lines 186, 209
cache_find_return(t) ==
    /\ ~crashed
    /\ pc[t] = "find_return"
    /\ pc' = [pc EXCEPT ![t] = "idle"]
    /\ call' = [call EXCEPT ![t] = NoCall]
    /\ UNCHANGED <<cachevars, mutex, crashed, corrupt, recency>>

\* what one thread can do, with undefined behaviour followed `depth` deep
ThreadStep(t, depth) ==
    \/ cache_add_enter(t)
    \/ cache_add_critical(t, depth)
    \/ cache_add_unlock(t)
    \/ cache_add_return(t)
    \/ cache_find_enter(t)
    \/ cache_find_critical(t, depth)
    \/ cache_find_unlock(t)
    \/ cache_find_return(t)

\* NumThreads threads call into the cache concurrently
Next == \E t \in Threads : ThreadStep(t, MaxCorruptOps)

Spec == Init /\ [][Next]_vars

\* one thread calls into the cache; what follows undefined behaviour is
\* explored one call deeper
NextDeep == ThreadStep(1, MaxCorruptOps + 1)

SpecDeep == Init /\ [][NextDeep]_vars

\* The thread that holds the mutex keeps running: once its critical section
\* is over, its pthread_mutex_unlock is eventually executed.
SpecFair ==
    Spec /\ \A t \in Threads : /\ WF_vars(cache_add_unlock(t))
                               /\ WF_vars(cache_find_unlock(t))

(* ------------------------ observations of a state ---------------------- *)

Range(s) == {s[i] : i \in DOMAIN s}

\* the addresses met from x by following next, at most n of them
RECURSIVE Walk(_, _, _)
Walk(h, x, n) ==
    IF x = NULL \/ n = 0 THEN <<>> ELSE <<x>> \o Walk(h, h[x].next, n - 1)

\* the recency list, read from head to tail
ListSeq == Walk(heap, head, MaxAddr + 1)

ListKeys == [i \in DOMAIN ListSeq |-> heap[ListSeq[i]].url]

\* the entries stored in the index
IndexEntries == {map[k] : k \in Keys} \ {NULL}

RECURSIVE SumLen(_, _)
SumLen(h, S) ==
    IF S = {} THEN 0
    ELSE LET x == CHOOSE y \in S : TRUE IN h[x].len + SumLen(h, S \ {x})

IndexSize == SumLen(heap, IndexEntries)

\* steps of thread t
AddRuns(t) == pc[t] = "add_lock" /\ pc'[t] = "add_unlock"
FindRuns(t) == pc[t] = "find_lock" /\ pc'[t] = "find_unlock"

(* ----------------------- cache_destroy, cache_init ---------------------- *)

\* map_destroy over the keys K: every mapping is removed and the value
\* destructor free_cache_element runs on its entry
RECURSIVE map_destroy(_, _)
MapDestroyNext(c, K, k) == map_destroy(map_erase(c, k), K \ {k})
map_destroy(c, K) ==
    IF K = {} THEN c ELSE MapDestroyNext(c, K, CHOOSE k \in K : TRUE)

\* the stores of lines 167-170 (138-140 and 148 in cache_init)
ResetFields(c) ==
    [c EXCEPT !.head = NULL, !.tail = NULL, !.current_size = 0,
              !.map = [k \in Keys |-> NULL]]

\* the mutex after pthread_mutex_destroy; g_cache.map is then NULL (no index)
DESTROYED == 0 - 1

Destroyed == mutex = DESTROYED

\* cache_destroy has computed memory c: the process aborts on undefined
\* behaviour (an entry released twice), or goes on with c.
DestroyStep(c) ==
    /\ mutex' = DESTROYED
    /\ \E ub \in Outcomes(c) :
         IF ub = "abort"
         THEN /\ crashed' = TRUE
              /\ UNCHANGED <<cachevars, corrupt, recency>>
         ELSE /\ Install(c)
              /\ recency' = <<>>
              /\ corrupt' = NextCorrupt(c)
              /\ UNCHANGED crashed
    /\ UNCHANGED <<pc, call>>

\* cache_destroy with an index whose destruction releases no entry
cache_destroy_LeaksEntries ==
    /\ ~crashed
    /\ \A t \in Threads : pc[t] = "idle"
    /\ mutex = 0
    /\ corrupt <= MaxCorruptOps
    /\ DestroyStep(ResetFields(Cache))

\* cache_destroy, lines 156-180, called while no other call is in progress
cache_destroy ==
    /\ ~crashed
    /\ \A t \in Threads : pc[t] = "idle"
    /\ mutex = 0
    /\ corrupt <= MaxCorruptOps
    /\ DestroyStep(ResetFields(map_destroy(Cache, Keys)))

\* cache_init, lines 137-153, called again after cache_destroy (a failing
\* map_create ends the process: no step)
cache_init ==
    /\ ~crashed
    /\ Destroyed
    /\ Store(ResetFields(Cache))
    /\ mutex' = 0
    /\ UNCHANGED <<pc, call, crashed, corrupt, recency>>

\* main: one caller uses the cache, which is destroyed and initialised again
\* between uses
NextMain ==
    \/ ~Destroyed /\ ThreadStep(1, MaxCorruptOps)
    \/ cache_destroy
    \/ cache_init

SpecMain == Init /\ [][NextMain]_vars

(* -------------------------------- claims -------------------------------- *)

\* C1: whenever no thread holds the lock, current_size equals the sum of len
\* over the entries stored in the index.
C1_SizeIsIndexSum == mutex = 0 => current_size = IndexSize

\* C2: whenever the lock is free, current_size <= MAX_CACHE_SIZE.
C2_SizeWithinCapacity == mutex = 0 => current_size <= MAX_CACHE_SIZE

\* C3: whenever the lock is free, the entries stored in the index are exactly
\* the entries linked in the recency list (reachable from head by next).
C3_IndexIffList == mutex = 0 => IndexEntries = Range(ListSeq)

\* the sum of len over the last j entries of list L
RECURSIVE SuffixLen(_, _, _)
SuffixLen(h, L, j) ==
    IF j = 0 THEN 0 ELSE h[L[Len(L) - j + 1]].len + SuffixLen(h, L, j - 1)

\* the keys the step removes from the index
KeysRemoved == {k \in Keys : map[k] # NULL /\ map'[k] = NULL}

\* C4: a cache_add that inserts an absent key without allocation failure
\* evicts the shortest tail suffix of the recency list that makes the new
\* entry fit (nothing when it already fits), one entry at a time from the
\* tail, and every other entry stays in the index.
C4_InsertEvictsShortestTailSuffix ==
    [][\A t \in Threads :
         (AddRuns(t) /\ call'[t].path = "insert" /\ call'[t].fail = "none") =>
           LET L  == ListSeq
               ev == call'[t].evicted
               n  == call'[t].len
               j  == Len(ev)
           IN /\ j <= Len(L)
              /\ \A i \in 1 .. j : ev[i] = L[Len(L) - i + 1]
              /\ current_size - SuffixLen(heap, L, j) + n <= MAX_CACHE_SIZE
              /\ \A i \in 0 .. j - 1 :
                     current_size - SuffixLen(heap, L, i) + n > MAX_CACHE_SIZE
              /\ KeysRemoved = {heap[ev[i]].url : i \in 1 .. j}
              /\ \A k \in Keys \ (KeysRemoved \cup {call'[t].url}) :
                     map'[k] = map[k]
      ]_vars

\* C5: after a cache_add with valid input and no allocation failure (insert
\* or update) the index maps the key to one entry, which holds the new
\* payload and length and is the head of the recency list, and a cache_find
\* of the key that follows returns that entry.
C5_AddStoresEntryAtHead ==
    [][\A t \in Threads :
         (AddRuns(t) /\ call'[t].fail = "none") =>
           LET key == call'[t].url
               e   == map'[key]
           IN /\ e # NULL
              /\ \A k \in Keys \ {key} : map'[k] # e
              /\ heap'[e].url = key
              /\ heap'[e].data = call'[t].data
              /\ heap'[e].len = call'[t].len
              /\ head' = e
              /\ map_find(Cache', key) = e
              /\ cache_find_locked(Cache', key).head = e
      ]_vars

\* C6: whenever the lock is free, the recency list read from head to tail
\* lists the keys of the index in decreasing order of last touch (insert,
\* update or find hit), most recently touched first.
C6_ListIsReverseTouchOrder == mutex = 0 => ListKeys = recency

\* the last element of a non-empty sequence, NULL for the empty one
Last(s) == IF s = <<>> THEN NULL ELSE s[Len(s)]

\* C7: cache_find of a key in the index returns the entry mapped to it and
\* moves exactly that entry to the head of the recency list, the others
\* keeping their relative order, with head and tail repaired; cache_find of
\* an absent key returns NULL.
C7_FindMovesHitToHead ==
    [][\A t \in Threads :
         FindRuns(t) =>
           LET e == map[call'[t].url] IN
           /\ call'[t].ret = e
           /\ e # NULL =>
                /\ ListSeq' = <<e>> \o SelectSeq(ListSeq, LAMBDA x : x # e)
                /\ head' = e
                /\ tail' = Last(ListSeq')
                /\ heap'[head'].prev = NULL
                /\ heap'[tail'].next = NULL
      ]_vars

\* a step in which thread t runs a cache_find call (hit, miss or NULL key)
FindCalled(t) ==
    \/ FindRuns(t)
    \/ pc[t] = "idle" /\ pc'[t] = "find_return"

\* C8: cache_find changes nothing but the recency order: current_size, the
\* keys of the index and the payload and len of every entry of the index
\* stay as they were; a second cache_find of the same key right after
\* returns the same entry with the same payload and leaves the list order
\* as it is.
C8_FindOnlyReorders ==
    [][\A t \in Threads :
         FindCalled(t) =>
           /\ current_size' = current_size
           /\ map' = map
           /\ live' = live
           /\ \A x \in IndexEntries : /\ heap'[x].data = heap[x].data
                                      /\ heap'[x].len = heap[x].len
                                      /\ heap'[x].url = heap[x].url
           /\ LET again == cache_find_locked(Cache', call'[t].url) IN
              /\ map_find(Cache', call'[t].url) = call'[t].ret
              /\ again.head = head'
              /\ Walk(again.heap, again.head, MaxAddr + 1) = ListSeq'
              /\ \A x \in IndexEntries : again.heap[x].data = heap[x].data
      ]_vars

\* a find hit has just moved an entry from inside a list of three to the head
C8_Witness ==
    \E t \in Threads :
        /\ pc[t] = "find_unlock"
        /\ call[t].ret # NULL
        /\ head = call[t].ret
        /\ Len(ListSeq) >= 3
        /\ corrupt = 0

\* C9: a cache_add whose input is invalid (NULL key, NULL payload, length 0
\* or length > MAX_CACHE_SIZE) returns without changing the index, the list,
\* any entry or current_size and without taking the lock; only calls with
\* valid input ever reach the critical section.
C9_InvalidAddIsNoOp ==
    [][\A t \in Threads :
         /\ (pc[t] = "idle" /\ pc'[t] = "add_return") =>
               /\ UNCHANGED <<cachevars, mutex>>
               /\ \/ call'[t].url = NullStr
                  \/ call'[t].data = NullData
                  \/ call'[t].len = 0
                  \/ call'[t].len > MAX_CACHE_SIZE
         /\ (pc[t] = "add_lock" /\ pc'[t] # "add_lock") =>
               /\ call'[t].url # NullStr
               /\ call'[t].data # NullData
               /\ call'[t].len > 0
               /\ call'[t].len <= MAX_CACHE_SIZE
      ]_vars

\* a cache_add of length 0 has just been rejected on a cache holding entries
C9_Witness ==
    \E t \in Threads :
        /\ pc[t] = "add_return"
        /\ call[t].len = 0
        /\ call[t].url # NullStr
        /\ IndexEntries # {}
        /\ mutex = 0

\* C10: under fair scheduling every critical section runs to its unlock: a
\* thread that has taken the lock (and has not aborted the process) releases
\* it, so the eviction loop terminates and every call returns.
C10_CallsReturn ==
    \A t \in Threads : (mutex = t /\ ~crashed) ~> (mutex = 0 \/ crashed)


\* C11: a cache_add on the insert path in which an allocation fails (entry
\* struct, key copy or payload buffer) returns without effect: the index, the
\* recency list, head, tail, current_size, the payload and len of every
\* entry and the set of allocated entries are as they were before the call.
C11_InsertFailureLeavesStateIntact ==
    [][\A t \in Threads :
         (AddRuns(t) /\ call'[t].path = "insert" /\ call'[t].fail # "none") =>
           /\ map' = map
           /\ head' = head
           /\ tail' = tail
           /\ ListSeq' = ListSeq
           /\ current_size' = current_size
           /\ live' = live
           /\ \A x \in IndexEntries : /\ heap'[x].data = heap[x].data
                                      /\ heap'[x].len = heap[x].len
      ]_vars


\* C12: when the payload allocation of an update fails, the existing entry
\* of the key is removed from the index and from the recency list, and the
\* state that results keeps current_size equal to the sum of len over the
\* index and the index paired with the list.
C12_UpdateFailureRemovesEntry ==
    [][\A t \in Threads :
         (AddRuns(t) /\ call'[t].path = "update" /\ call'[t].fail = "data") =>
           LET e == map[call'[t].url] IN
           /\ map'[call'[t].url] = NULL
           /\ e \notin Range(ListSeq')
           /\ e \notin {head', tail'}
           /\ current_size' = IndexSize'
           /\ IndexEntries' = Range(ListSeq')
      ]_vars


\* thread t is between its pthread_mutex_lock and its pthread_mutex_unlock
InCriticalSection(t) == pc[t] \in {"add_unlock", "find_unlock", "add_spin"}

\* C13: cache_add and cache_find touch the cache state only in a critical
\* section entered with the lock free and held by the calling thread; a
\* thread inside a critical section is the holder of the lock (so at most
\* one is inside), and on every exit path the lock is released: a thread
\* outside its critical section never holds it.
C13_LockDiscipline ==
    [][\A t \in Threads :
         /\ (pc'[t] # pc[t] /\ cachevars' # cachevars) =>
               (mutex = 0 /\ mutex' = t /\ pc[t] \in {"add_lock", "find_lock"})
         /\ InCriticalSection(t)' => mutex' = t
         /\ (mutex' = t /\ ~crashed') => InCriticalSection(t)'
      ]_vars

\* a cache_add has taken the allocation-failure exit of the update path and
\* is about to unlock, while another thread waits for the lock
C13_Witness ==
    \E t, u \in Threads :
        /\ t # u
        /\ pc[t] = "add_unlock"
        /\ call[t].path = "update"
        /\ call[t].fail = "data"
        /\ mutex = t
        /\ pc[u] \in {"add_lock", "find_lock"}


\* C14: whenever the lock is free the recency list is a well-formed doubly
\* linked list: head and tail are NULL together, exactly when the list is
\* empty; head.prev and tail.next are NULL; tail is the last entry met from
\* head; e.next = f implies f.prev = e for every linked entry e; following
\* next from head ends at NULL without meeting an entry twice.
C14_ListWellFormed ==
    mutex = 0 =>
      LET L == ListSeq IN
      /\ (head = NULL) = (tail = NULL)
      /\ (head = NULL) = (L = <<>>)
      /\ head # NULL => heap[head].prev = NULL
      /\ tail # NULL => heap[tail].next = NULL
      /\ tail = Last(L)
      /\ \A i \in DOMAIN L :
            heap[L[i]].next # NULL => heap[heap[L[i]].next].prev = L[i]
      /\ \A i, j \in DOMAIN L : L[i] = L[j] => i = j
      /\ Len(L) <= MaxAddr


\* the eviction test of the update path after i entries of list L have been
\* evicted: current_size - old_len - (sizes evicted) + length, in size_t
FitTest(cs, old_len, h, L, i, length) ==
    (cs - old_len - SuffixLen(h, L, i) + length) % SIZE_MOD

\* C15: on the update path of cache_add the old size of the entry is
\* subtracted before the eviction test (computed in size_t, as the code
\* does): when current_size - old_len + new_len <= MAX_CACHE_SIZE no entry is
\* evicted (also when current_size + new_len > MAX_CACHE_SIZE), and otherwise
\* the evicted entries are the shortest tail suffix of the recency list whose
\* removal makes current_size - old_len + new_len fit.
C15_UpdateSubtractsOldSizeFirst ==
    [][\A t \in Threads :
         (AddRuns(t) /\ call'[t].path = "update") =>
           LET L   == ListSeq
               ev  == call'[t].evicted
               old == heap[map[call'[t].url]].len
               n   == call'[t].len
               j   == Len(ev)
           IN /\ FitTest(current_size, old, heap, L, 0, n) <= MAX_CACHE_SIZE
                   => ev = <<>>
              /\ j <= Len(L)
              /\ \A i \in 1 .. j : ev[i] = L[Len(L) - i + 1]
              /\ FitTest(current_size, old, heap, L, j, n) <= MAX_CACHE_SIZE
              /\ \A i \in 0 .. j - 1 :
                     FitTest(current_size, old, heap, L, i, n) > MAX_CACHE_SIZE
      ]_vars


\* C16: entry lifetime is safe: no call has read, written or released an
\* entry that was already released (corrupt stays 0 and no call aborts on
\* such a use), and every entry that the index, the recency list, head or
\* tail still names is allocated, i.e. an entry is released only once it has
\* left both the index and the list.
C16_EntryLifetimeSafe ==
    /\ corrupt = 0
    /\ ~crashed
    /\ (IndexEntries \cup Range(ListSeq) \cup {head, tail}) \ {NULL} \subseteq live

\* C17: cache_destroy releases every entry and leaves head = tail = NULL,
\* current_size = 0 and no index, without using released memory; the
\* cache_init that follows yields the state of a freshly initialised cache:
\* empty index and list, current_size 0, free lock, no allocated entry, and a
\* cache_find of any key misses.
C17_DestroyThenInitIsFresh ==
    [][/\ (mutex = 0 /\ Destroyed') =>
            /\ ~crashed'
            /\ live' = {}
            /\ head' = NULL /\ tail' = NULL /\ current_size' = 0
            /\ IndexEntries' = {}
       /\ (Destroyed /\ mutex' = 0) =>
            /\ map' = [k \in Keys |-> NULL]
            /\ head' = NULL /\ tail' = NULL /\ current_size' = 0
            /\ heap' = [x \in Addr |-> ZeroElement]
            /\ live' = {}
            /\ \A k \in Keys : map_find(Cache', k) = NULL
            /\ \A k \in Keys : cache_find_locked(Cache', k) = Cache'
      ]_vars

\* cache_destroy has run on a cache in which an earlier update had used a
\* released entry
C17_Witness == Destroyed /\ ~crashed /\ corrupt > 0


\* C18: in the update path of cache_add(key, ...) the eviction loop never
\* takes the entry of key itself as its victim, so that entry is still
\* allocated when it is detached, rewritten and re-attached.
C18_UpdateNeverEvictsItself ==
    [][\A t \in Threads :
         (/\ pc[t] = "add_lock"
          /\ pc'[t] \in {"add_unlock", "add_spin"}
          /\ call'[t].path = "update") =>
           /\ map[call'[t].url] \notin Range(call'[t].evicted)
           /\ (/\ map[call'[t].url] \in live
               /\ call'[t].fail = "none"
               /\ pc'[t] = "add_unlock") => map[call'[t].url] \in live'
      ]_vars


\* current_size after the first i evictions of a cache_add whose loop starts
\* from size cs, computed in the integers (no wrap)
RECURSIVE SizeAfter(_, _, _, _)
SizeAfter(cs, h, ev, i) ==
    IF i = 0 THEN cs ELSE SizeAfter(cs, h, ev, i - 1) - h[ev[i]].len

\* C19: the unsigned counter current_size never underflows: the subtraction
\* of the old length at the start of the update path and every subtraction in
\* remove_lru_element_unlocked take away no more than current_size holds.
C19_SizeNeverUnderflows ==
    [][\A t \in Threads :
         (pc[t] = "add_lock" /\ pc'[t] \in {"add_unlock", "add_spin"}) =>
           LET old == IF call'[t].path = "update"
                      THEN heap[map[call'[t].url]].len ELSE 0
           IN \A i \in 0 .. Len(call'[t].evicted) :
                 SizeAfter(current_size - old, heap, call'[t].evicted, i) >= 0
      ]_vars


\* C20: while a thread holds an entry returned by cache_find (it has left
\* cache_find's critical section and made no further cache call), no step of
\* another thread releases that entry or overwrites its payload or length.
C20_ReturnedEntryStaysValid ==
    [][\A t \in Threads :
         (/\ pc[t] = "find_return" /\ pc'[t] = "find_return"
          /\ call[t].ret # NULL
          /\ call[t].ret \in live) =>
           /\ call[t].ret \in live'
           /\ heap'[call[t].ret].data = heap[call[t].ret].data
           /\ heap'[call[t].ret].len = heap[call[t].ret].len
      ]_vars

====
